---- MODULE Spec2Model ----
\* A model of mbs (MetaBaseSync): the REST client with its re-authentication,
\* the render -> check -> upload pipeline of push, pull and merge over the
\* local tree, the repository marker written by init, and the exit codes of
\* the command line.
EXTENDS Integers, Sequences, FiniteSets, TLC

VARIABLES
    remotes,    \* the credential file remotes.json: NoFile, or url -> record
    rq,         \* the last _get / _put / login: outcome, credential file before, arguments
    push,       \* the push command: its files, its position, what it rendered and PUT
    sync,       \* pull / merge: the local tree, the remote cards, the last command
    repo,       \* the marker file .mbs and the last init call
    cli         \* the command line process of __main__.py

vars == <<remotes, rq, push, sync, repo, cli>>

-----------------------------------------------------------------------------
\* Bounds

\* longest rendered text, in tokens
MaxTextLen == 4
\* most files of a batch push
NFiles == 2
\* depth at which Python stops the recursion of _get / _put (RecursionError)
RecursionLimit == 2
\* longest url given to init, in characters
MaxUrlLen == 4

-----------------------------------------------------------------------------
\* Texts: a rendered file is a sequence of tokens. "{" and "}" are the braces
\* of a JSON object, "\n" is a line break, and the other four are whole
\* members ("key": value, with the comma that separates it from the next
\* member); a member whose spelling ends in # carries the ownership tag in
\* its value.

Tokens == {"{", "}", "id", "name", "name#", "desc#", "\n"}

TextsUpTo(n) == UNION {[1..k -> Tokens] : k \in 0..n}

Texts == TextsUpTo(MaxTextLen)

IsMember(c) == c \in {"id", "name", "name#", "desc#"}

KeyOf(c) == IF c = "id" THEN "id"
            ELSE IF c \in {"name", "name#"} THEN "name"
            ELSE "description"

\* self.mbs_tag in output
HasTag(s) == \E k \in 1..Len(s) : s[k] \in {"name#", "desc#"}

\* json.loads: the decoder skips white space, reads one value and accepts
\* nothing but white space after it. A failure carries the position of the
\* offending token, or the position after the text when the text ends early.
RECURSIVE SkipWs(_, _)
SkipWs(s, p) == IF p <= Len(s) /\ s[p] = "\n" THEN SkipWs(s, p + 1) ELSE p

Parsed(keys) == [ok |-> TRUE, keys |-> keys, pos |-> 0]
DecodeError(p) == [ok |-> FALSE, keys |-> {}, pos |-> p]

RECURSIVE Members(_, _, _)
Members(s, p, keys) ==
    LET q == SkipWs(s, p) IN
    IF q > Len(s) THEN DecodeError(q)
    ELSE IF s[q] = "}"
         THEN (LET e == SkipWs(s, q + 1) IN
               IF e > Len(s) THEN Parsed(keys) ELSE DecodeError(e))
    ELSE IF IsMember(s[q]) THEN Members(s, q + 1, keys \cup {KeyOf(s[q])})
    ELSE DecodeError(q)

json_loads(s) ==
    LET q == SkipWs(s, 1) IN
    IF q > Len(s) THEN DecodeError(q)
    ELSE IF s[q] = "{" THEN Members(s, q + 1, {})
    ELSE DecodeError(q)

\* JSONDecodeError.lineno: one more than the line breaks before the position
lineno(s, p) == 1 + Cardinality({k \in 1..(p - 1) : s[k] = "\n"})

\* len(data.splitlines()): a final line break opens no further line
splitlines(s) ==
    Cardinality({k \in 1..Len(s) : s[k] = "\n"})
        + (IF Len(s) = 0 \/ s[Len(s)] = "\n" THEN 0 ELSE 1)

\* Metabase.check on a text: "True", or the kind of the exception it raises.
\* The except branch logs data.splitlines()[e.lineno - 1] before it raises.
check(data) ==
    LET r == json_loads(data) IN
    IF ~r.ok
    THEN (IF lineno(data, r.pos) - 1 >= splitlines(data)
          THEN "IndexError" ELSE "MbsException")
    ELSE IF "id" \notin r.keys \/ "name" \notin r.keys THEN "MbsFatalException"
    ELSE "True"

\* A file of the working tree, as push sees it: what the template engine
\* makes of it (a text, or a TemplateSyntaxError), and whether its directory
\* name contains the include folder.
TemplateSyntaxError == <<"{%">>

\* as if render did not look for the tag
renderNoTagTest(file) ==
    IF file.template = TemplateSyntaxError
    THEN [raised |-> "MbsFatalException", output |-> <<>>]
    ELSE [raised |-> "none", output |-> file.template]

\* Metabase.render: the rendered text, or the kind of the exception raised
render(file) ==
    IF file.template = TemplateSyntaxError
    THEN [raised |-> "MbsFatalException", output |-> <<>>]
    ELSE IF ~HasTag(file.template)
    THEN [raised |-> "MbsException", output |-> <<>>]
    ELSE [raised |-> "none", output |-> file.template]

-----------------------------------------------------------------------------
\* The credential store and the REST client

\* config["url"], the url of the marker file, and another remote
ConfigUrl == "u1"
URLS == {"u1", "u2"}
SessionIds == {"s1", "s2"}
Usernames == {"alice"}
\* a password may be saved empty
Passwords == {"pw", ""}

NoFile == [exists |-> FALSE, map |-> <<>>]
Store(m) == [exists |-> TRUE, map |-> m]

\* the records login writes: the session alone, or with username and password
SessionOnly(sid) == [k \in {"session"} |-> sid]
Saved(sid, u, p) == [k \in {"session", "username", "password"} |->
                        IF k = "session" THEN sid ELSE IF k = "username" THEN u ELSE p]
LoginRecords == {SessionOnly(sid) : sid \in SessionIds}
                \cup {Saved(sid, u, p) : sid \in SessionIds, u \in Usernames, p \in Passwords}

\* every store that logins can have left behind
Stores == {Store(m) : m \in UNION {[D -> LoginRecords] : D \in (SUBSET URLS) \ {{}}}}

\* the properties session / username / password: remotes raises without the
\* file, an empty store reads as False, a missing key is a KeyError
Prop(rem, key) ==
    IF ~rem.exists THEN [raised |-> "MbsFatalException", value |-> ""]
    ELSE IF DOMAIN rem.map = {} THEN [raised |-> "none", value |-> ""]
    ELSE IF ConfigUrl \notin DOMAIN rem.map \/ key \notin DOMAIN rem.map[ConfigUrl]
    THEN [raised |-> "KeyError", value |-> ""]
    ELSE [raised |-> "none", value |-> rem.map[ConfigUrl][key]]

Truthy(v) == v # ""

\* what the server answers to a GET or a PUT
Replies == {[status |-> 200, text |-> "json"], [status |-> 202, text |-> "json"],
            [status |-> 401, text |-> "Unauthenticated"], [status |-> 500, text |-> "error"]}

\* what the server answers to POST /api/session
LoginReplies == {[status |-> 200, hasId |-> TRUE, id |-> sid] : sid \in SessionIds}
                \cup {[status |-> 200, hasId |-> FALSE, id |-> ""],
                      [status |-> 401, hasId |-> FALSE, id |-> ""]}

Accepted(op) == IF op = "get" THEN {200} ELSE {200, 202}

\* as if login updated the prior record of the url instead of replacing it
loginKeepPrior(rem, username, password, dont_save_credentials, reply) ==
    LET credentials == IF rem.exists THEN rem.map ELSE <<>>
        prior == IF ConfigUrl \in DOMAIN credentials THEN credentials[ConfigUrl] ELSE <<>>
        record == IF dont_save_credentials THEN SessionOnly(reply.id) @@ prior
                  ELSE Saved(reply.id, username, password)
    IN  IF reply.status = 200 /\ reply.hasId
        THEN [raised |-> "none",
              remotes |-> Store([u \in DOMAIN credentials \cup {ConfigUrl} |->
                                    IF u = ConfigUrl THEN record ELSE credentials[u]])]
        ELSE [raised |-> "MbsFatalException", remotes |-> rem]

\* Metabase.login, given the server's answer: the exception raised and the
\* credential file afterwards
login(rem, username, password, dont_save_credentials, reply) ==
    LET credentials == IF rem.exists THEN rem.map ELSE <<>>
        record == IF dont_save_credentials THEN SessionOnly(reply.id)
                  ELSE Saved(reply.id, username, password)
    IN  IF reply.status = 200 /\ reply.hasId
        THEN [raised |-> "none",
              remotes |-> Store([u \in DOMAIN credentials \cup {ConfigUrl} |->
                                    IF u = ConfigUrl THEN record ELSE credentials[u]])]
        ELSE [raised |-> "MbsFatalException", remotes |-> rem]

\* Metabase.renew_session: every outcome the server's answer allows, with
\* the number of login requests sent
renew_session(rem) ==
    LET u == Prop(rem, "username")
        p == Prop(rem, "password")
        refused(kind) == {[raised |-> kind, logins |-> 0, remotes |-> rem]}
    IN  IF u.raised # "none" THEN refused(u.raised)
        ELSE IF ~Truthy(u.value) THEN refused("MbsFatalException")
        ELSE IF p.raised # "none" THEN refused(p.raised)
        ELSE IF ~Truthy(p.value) THEN refused("MbsFatalException")
        ELSE {[raised |-> o.raised, logins |-> 1, remotes |-> o.remotes] :
                o \in {login(rem, u.value, p.value, FALSE, r) : r \in LoginReplies}}

\* Metabase._get / Metabase._put: every outcome of one call, over all the
\* answers of the server: the exception raised ("none": the call returned),
\* the requests and logins sent, the "Unauthenticated" answers received, and
\* the credential file afterwards. The
\* call at depth RecursionLimit is the one Python refuses.
RECURSIVE request(_, _, _)
request(op, rem, depth) ==
    LET out(kind, sends, logins, unauth, r) ==
            [raised |-> kind, sends |-> sends, logins |-> logins,
             unauth |-> unauth, remotes |-> r]
        s == Prop(rem, "session")
        answered(reply) ==
            IF reply.status \in Accepted(op) THEN {out("none", 1, 0, 0, rem)}
            ELSE IF reply.text = "Unauthenticated"
            THEN UNION {IF o.raised # "none"
                        THEN {out(o.raised, 1, o.logins, 1, o.remotes)}
                        ELSE {out(x.raised, x.sends + 1, x.logins + 1, x.unauth + 1,
                                  x.remotes) :
                                x \in request(op, o.remotes, depth + 1)} :
                        o \in renew_session(rem)}
            ELSE {out("MbsFatalException", 1, 0, 0, rem)}
    IN  IF depth >= RecursionLimit THEN {out("RecursionError", 0, 0, 0, rem)}
        ELSE IF s.raised # "none" THEN {out(s.raised, 0, 0, 0, rem)}
        ELSE UNION {answered(reply) : reply \in Replies}

_get(rem) == request("get", rem, 0)
_put(rem) == request("put", rem, 0)

\* the arguments of a login and the answer it got; none for a get or put
NoArgs == [username |-> "", password |-> "", dont_save_credentials |-> FALSE,
           reply |-> [status |-> 0, hasId |-> FALSE, id |-> ""]]

\* what is kept of a finished call: its outcome, the credential file it
\* started from and its arguments
Done(op, o, pre, args) ==
    [op |-> op, raised |-> o.raised, sends |-> o.sends, logins |-> o.logins,
     unauth |-> o.unauth, pre |-> pre, args |-> args]

Idle == Done("none", [raised |-> "none", sends |-> 0, logins |-> 0, unauth |-> 0],
             NoFile, NoArgs)
PushIdle == [pc |-> "idle"]
SyncIdle == [pc |-> "idle"]
RepoIdle == [pc |-> "idle"]
CliIdle == [pc |-> "idle"]

\* One request of the REST client
Get ==
    /\ \E o \in _get(remotes) :
        /\ rq' = Done("get", o, remotes, NoArgs)
        /\ remotes' = o.remotes
    /\ UNCHANGED <<push, sync, repo, cli>>

Put ==
    /\ \E o \in _put(remotes) :
        /\ rq' = Done("put", o, remotes, NoArgs)
        /\ remotes' = o.remotes
    /\ UNCHANGED <<push, sync, repo, cli>>

\* The login command
Login ==
    /\ \E u \in Usernames, p \in Passwords, dont \in BOOLEAN, reply \in LoginReplies :
        LET o == login(remotes, u, p, dont, reply) IN
        /\ rq' = Done("login",
                       [raised |-> o.raised, sends |-> 0, logins |-> 1, unauth |-> 0],
                       remotes,
                       [username |-> u, password |-> p, dont_save_credentials |-> dont,
                        reply |-> reply])
        /\ remotes' = o.remotes
    /\ UNCHANGED <<push, sync, repo, cli>>

InitRest ==
    /\ remotes \in {NoFile} \cup Stores
    /\ rq = Idle
    /\ push = PushIdle /\ sync = SyncIdle /\ repo = RepoIdle /\ cli = CliIdle

NextRest == Get \/ Put \/ Login

SpecRest == InitRest /\ [][NextRest]_vars

\* C1: a get or put request logs in at most once and is sent at most twice,
\* however the server answers.
C1_ReauthAtMostOnce ==
    rq.op \in {"get", "put"} => rq.logins <= 1 /\ rq.sends <= 2

\* the record of the url in the credential file a call started from
PriorRecord ==
    IF rq.pre.exists /\ ConfigUrl \in DOMAIN rq.pre.map THEN rq.pre.map[ConfigUrl] ELSE <<>>

\* C11: a get or put that was answered "Unauthenticated" while the record of
\* the url held the session alone (the login did not save the credentials)
\* ends with MbsFatalException, and no login request is sent.
C11_NoCredentialsFatalNoLogin ==
    (rq.op \in {"get", "put"} /\ rq.unauth >= 1 /\ DOMAIN PriorRecord = {"session"})
        => rq.raised = "MbsFatalException" /\ rq.logins = 0

\* the record login writes for the url, from its arguments and the answer
Written ==
    IF rq.args.dont_save_credentials THEN SessionOnly(rq.args.reply.id)
    ELSE Saved(rq.args.reply.id, rq.args.username, rq.args.password)

\* C14: a login that succeeds leaves for the url exactly the record of the
\* new session (with username and password only if they are to be saved) and
\* every other url's record as it was; a login that fails raises
\* MbsFatalException and leaves the credential file as it was.
C14_LoginChangesOwnRecordOnly ==
    rq.op = "login" =>
        LET before == IF rq.pre.exists THEN rq.pre.map ELSE <<>>
            success == rq.args.reply.status = 200 /\ rq.args.reply.hasId
        IN  IF success
            THEN /\ rq.raised = "none"
                 /\ remotes.exists
                 /\ DOMAIN remotes.map = DOMAIN before \cup {ConfigUrl}
                 /\ remotes.map[ConfigUrl] = Written
                 /\ DOMAIN remotes.map[ConfigUrl] =
                        IF rq.args.dont_save_credentials THEN {"session"}
                        ELSE {"session", "username", "password"}
                 /\ \A u \in DOMAIN before \ {ConfigUrl} : remotes.map[u] = before[u]
            ELSE rq.raised = "MbsFatalException" /\ remotes = rq.pre

\* a login that does not save the credentials has replaced a record with
\* username and password, next to the record of another url
C14_Witness ==
    /\ rq.op = "login" /\ rq.raised = "none" /\ rq.args.dont_save_credentials
    /\ DOMAIN PriorRecord = {"session", "username", "password"}
    /\ DOMAIN rq.pre.map = URLS
    /\ remotes.map[ConfigUrl] = SessionOnly(rq.args.reply.id)
    /\ PriorRecord["session"] # rq.args.reply.id

-----------------------------------------------------------------------------
\* push

File(t, inc) == [template |-> t, inc |-> inc]

\* texts for the files of a batch: valid and tagged, valid and untagged,
\* tagged without id, tagged and cut off after a line break, tagged and cut
\* off, untagged and no object
SampleTexts == { <<"{", "id", "name#", "}">>, <<"{", "id", "name", "}">>,
                 <<"{", "name#", "}">>, <<"{", "id", "desc#", "\n">>,
                 <<"{", "id", "name#">>, <<"name">> }

BatchFiles == {File(t, inc) : t \in SampleTexts \cup {TemplateSyntaxError}, inc \in BOOLEAN}

PushStores == {NoFile, Store([u \in {ConfigUrl} |-> Saved("s1", "alice", "pw")]),
               Store([u \in {ConfigUrl} |-> SessionOnly("s1")])}

\* as if the loop caught the exception, logged it and went on
raiseAndGoOn(p, kind) == [p EXCEPT !.idx = @ + 1, !.raised = kind]

\* an exception that nothing catches ends the command
raise(p, kind) == [p EXCEPT !.pc = "raised", !.raised = kind]

\* the next file of the loop (a single file is a loop of one)
next(p) == [p EXCEPT !.idx = @ + 1]

called(p) == [p EXCEPT !.rendered = Append(@, p.idx)]

checked(p, result) == [p EXCEPT !.checks = Append(@, [file |-> p.idx, result |-> result])]

\* One file of push: render, then check and PUT unless rendering only. A
\* batch skips the files under the include folder and does not check what
\* it only renders.
PushFile ==
    /\ push.pc = "run"
    /\ push.idx <= Len(push.files)
    /\ LET f == push.files[push.idx]
           r == render(f)
           p == called(push)
           c == checked(p, check(r.output))
       IN  IF ~push.single /\ f.inc
           THEN push' = next(push) /\ UNCHANGED <<remotes, rq>>
           ELSE IF r.raised # "none"
           THEN push' = raise(p, r.raised) /\ UNCHANGED <<remotes, rq>>
           ELSE IF ~push.single /\ push.render_only
           THEN push' = next(p) /\ UNCHANGED <<remotes, rq>>
           ELSE IF check(r.output) # "True"
           THEN push' = raise(c, check(r.output)) /\ UNCHANGED <<remotes, rq>>
           ELSE IF push.render_only
           THEN push' = next(c) /\ UNCHANGED <<remotes, rq>>
           ELSE \E o \in _put(remotes) :
                   LET card == json_loads(r.output).keys
                       sent == IF o.sends = 0 THEN c
                               ELSE [c EXCEPT !.puts = Append(@,
                                       [file |-> c.idx, card |-> card, sends |-> o.sends])]
                   IN  /\ remotes' = o.remotes
                       /\ rq' = Done("put", o, remotes, NoArgs)
                       /\ push' = IF o.raised # "none" THEN raise(sent, o.raised)
                                  ELSE next(sent)
    /\ UNCHANGED <<sync, repo, cli>>

\* the loop is through: push returns
PushEnd ==
    /\ push.pc = "run"
    /\ push.idx > Len(push.files)
    /\ push' = [push EXCEPT !.pc = "done"]
    /\ UNCHANGED <<remotes, rq, sync, repo, cli>>

PushStart(files, single, render_only) ==
    [pc |-> "run", files |-> files, single |-> single, render_only |-> render_only,
     idx |-> 1, raised |-> "none", rendered |-> <<>>, checks |-> <<>>, puts |-> <<>>]

InitPush ==
    /\ remotes \in PushStores
    /\ rq = Idle
    /\ \E render_only \in BOOLEAN :
        \/ \E t \in Texts \cup {TemplateSyntaxError} :
              push = PushStart(<<File(t, FALSE)>>, TRUE, render_only)
        \/ \E n \in 0..NFiles : \E files \in [1..n -> BatchFiles] :
              push = PushStart(files, FALSE, render_only)
    /\ sync = SyncIdle /\ repo = RepoIdle /\ cli = CliIdle

NextPush == PushFile \/ PushEnd

SpecPush == InitPush /\ [][NextPush]_vars

\* the text of file k, and whether push stops at it before any PUT
TextOf(k) == push.files[k].template
Rendered(k) == \E j \in 1..Len(push.rendered) : push.rendered[j] = k
Uploaded(k) == \E j \in 1..Len(push.puts) : push.puts[j].file = k
Untagged(k) == TextOf(k) # TemplateSyntaxError /\ ~HasTag(TextOf(k))

\* C2: no PUT is ever sent for a file whose rendered text lacks the
\* ownership tag, valid card or not, and push ends at such a file with the
\* non-fatal MbsException.
C2_UntaggedNeverUploaded ==
    \A k \in 1..Len(push.files) :
        Untagged(k) =>
            /\ ~Uploaded(k)
            /\ Rendered(k) =>
                  push.pc = "raised" /\ push.idx = k /\ push.raised = "MbsException"

\* a batch has uploaded its first file and is stopped by its second, a
\* valid card without the tag
C2_Witness ==
    /\ ~push.single /\ push.pc = "raised" /\ push.raised = "MbsException"
    /\ push.idx = 2 /\ Uploaded(1) /\ Rendered(2)
    /\ TextOf(2) = <<"{", "id", "name", "}">>

\* C3: check has exactly three outcomes: the non-fatal MbsException for a
\* text that is no JSON, the fatal MbsFatalException for an object without
\* id or without name, success for an object with both; and no card without
\* id or name is PUT.
C3_CheckThreeOutcomes ==
    /\ \A j \in 1..Len(push.checks) :
          LET r == json_loads(TextOf(push.checks[j].file)) IN
          push.checks[j].result =
              IF ~r.ok THEN "MbsException"
              ELSE IF {"id", "name"} \subseteq r.keys THEN "True"
              ELSE "MbsFatalException"
    /\ \A j \in 1..Len(push.puts) : {"id", "name"} \subseteq push.puts[j].card

\* whether file k of a batch fails: its rendering is rejected, or it is
\* meant for upload and check refuses it
Fails(k) ==
    \/ render(push.files[k]).raised # "none"
    \/ ~push.render_only /\ check(TextOf(k)) # "True"

\* C8: a batch push goes through its files in order and the first file that
\* fails ends it: nothing after that file is rendered or uploaded, and the
\* files before it stay uploaded.
C8_BatchStopsAtFirstFailure ==
    ~push.single =>
        /\ \A k \in 1..Len(push.files) :
              Rendered(k) \/ Uploaded(k) =>
                  \A j \in 1..(k - 1) : push.files[j].inc \/ ~Fails(j)
        /\ \A j \in 1..Len(push.rendered) : \A i \in 1..(j - 1) :
              push.rendered[i] < push.rendered[j]
        /\ \A k \in 1..Len(push.files) :
              (Rendered(k) /\ Fails(k)) =>
                  /\ push.pc = "raised" /\ push.idx = k
                  /\ ~push.render_only =>
                        \A j \in 1..(k - 1) : push.files[j].inc \/ Uploaded(j)

\* a batch of two: the first file is uploaded, check refuses the second
C8_Witness ==
    /\ ~push.single /\ ~push.render_only /\ Len(push.files) >= 2
    /\ Uploaded(1) /\ Rendered(2) /\ Fails(2)
    /\ push.pc = "raised" /\ push.raised = "MbsFatalException"

-----------------------------------------------------------------------------
\* Cards, the local tree, pull and merge

\* A card is a function from its keys to their values; a key it does not
\* carry is outside its domain. The value of dataset_query is a function
\* that maps "native" to the query text when the card is a native query; a
\* text is a sequence of words, "#" being the ownership tag.

ManagedFields == <<"created_at", "creator", "creator_id", "last-edit-info",
                   "made_public_by_id", "public_uuid", "updated_at",
                   "embedding_params", "enable_embedding", "average_query_time",
                   "last_query_start", "moderation_reviews">>

ManagedSet == {ManagedFields[k] : k \in 1..Len(ManagedFields)}

\* the server-managed fields the cards of a server carry
ManagedSamples == {ManagedSet, ManagedSet \ {"creator"}}

Ids == {1, 2}

\* card["name"], in characters
Names == {<<"A">>, <<"B", "/">>}

TitleMax == 256

TagIn(text) == \E k \in 1..Len(text) : text[k] = "#"

Null == [isstr |-> FALSE, text |-> <<>>]
Str(t) == [isstr |-> TRUE, text |-> t]

Without(f, keys) == [k \in (DOMAIN f) \ keys |-> f[k]]
With(f, key, v) == [k \in (DOMAIN f) \cup {key} |-> IF k = key THEN v ELSE f[k]]

\* the cards of the server: a tagged native query, an untagged native
\* query, and a query of the graphical editor tagged in its description
Kinds == {"native#", "native", "gui#"}

RemoteCard(id, name, kind, managed) ==
    ("id" :> id) @@ ("name" :> name)
    @@ ("query_type" :> (IF kind = "gui#" THEN "query" ELSE "native"))
    @@ ("dataset_query" :> (IF kind = "gui#" THEN <<>>
                            ELSE "native" :> (IF kind = "native#"
                                              THEN <<"select", "#">> ELSE <<"select">>)))
    @@ ("description" :> (IF kind = "gui#" THEN Str(<<"#">>) ELSE Null))
    @@ [k \in managed |-> "server"]

\* "".join(c for c in name if c.isalnum() or c in (' ', '.', '_', '-')).rstrip()[:256]
Kept(c) == c \in {"A", "B", "0", "1", "2", " ", ".", "_", "-"}

RECURSIVE rstrip(_)
rstrip(t) == IF Len(t) > 0 /\ t[Len(t)] = " " THEN rstrip(SubSeq(t, 1, Len(t) - 1)) ELSE t

title(name) ==
    LET t == rstrip(SelectSeq(name, Kept))
    IN  SubSeq(t, 1, IF Len(t) < TitleMax THEN Len(t) ELSE TitleMax)

\* f"{card['id']} - {title}.json"
FileName(id, t) == <<ToString(id), " ", "-", " ">> \o t \o <<".json">>

\* the del statements of __write_card: the first absent key ends them
RECURSIVE delFrom(_, _)
delFrom(card, k) ==
    IF k > Len(ManagedFields) THEN card
    ELSE IF ManagedFields[k] \notin DOMAIN card THEN card
    ELSE delFrom(Without(card, {ManagedFields[k]}), k + 1)

\* Metabase.__write_card: the tree afterwards, and the file it wrote if any
write_card(tree, card, overwrite, filename) ==
    LET fn == IF filename = <<>> THEN FileName(card["id"], title(card["name"]))
              ELSE filename
    IN  IF fn \notin DOMAIN tree \/ overwrite
        THEN [tree |-> With(tree, fn, delFrom(card, 1)), written |-> {fn}]
        ELSE [tree |-> tree, written |-> {}]

\* existing_ids of pull
existing_ids(tree) == {tree[f]["id"] : f \in {g \in DOMAIN tree : "id" \in DOMAIN tree[g]}}

\* the test of pull for the ownership tag
tagged(card) ==
    \/ "native" \in DOMAIN card["dataset_query"] /\ TagIn(card["dataset_query"]["native"])
    \/ card["description"].isstr /\ TagIn(card["description"].text)

\* as if the loop of pull returned after the first card it writes
RECURSIVE pull_allFirstOnly(_, _, _, _, _)
pull_allFirstOnly(tree, cards, k, existing, overwrite) ==
    IF k > Len(cards) THEN [tree |-> tree, written |-> {}]
    ELSE IF cards[k]["id"] \in existing \/ ~tagged(cards[k])
    THEN pull_allFirstOnly(tree, cards, k + 1, existing, overwrite)
    ELSE write_card(tree, cards[k], overwrite, <<>>)

\* the loop of pull over the cards of GET /api/card, from card k on
RECURSIVE pull_all(_, _, _, _, _)
pull_all(tree, cards, k, existing, overwrite) ==
    IF k > Len(cards) THEN [tree |-> tree, written |-> {}]
    ELSE IF cards[k]["id"] \in existing \/ ~tagged(cards[k])
    THEN pull_all(tree, cards, k + 1, existing, overwrite)
    ELSE LET w == write_card(tree, cards[k], overwrite, <<>>)
             rest == pull_all(w.tree, cards, k + 1, existing, overwrite)
         IN  [tree |-> rest.tree, written |-> w.written \cup rest.written]

\* GET /api/card: the cards of the server, by id
RECURSIVE card_list(_, _)
card_list(srv, id) ==
    IF id \notin DOMAIN srv THEN <<>> ELSE <<srv[id]>> \o card_list(srv, id + 1)

\* Metabase.pull once the GET has returned; card_id 0 is no card id
pull(tree, srv, card_id, overwrite) ==
    IF card_id # 0 THEN write_card(tree, srv[card_id], overwrite, <<>>)
    ELSE pull_all(tree, card_list(srv, 1), 1, existing_ids(tree), overwrite)

\* GET /api/card/<id>: the server answers 200 only for a card it has
get_card(rem, srv, id) ==
    {[raised |-> o.raised, remotes |-> o.remotes] :
        o \in {x \in _get(rem) : x.raised = "none" => id \in DOMAIN srv \cup {0}}}

\* as if merge forgot to copy the local query
keep_remote_query(updated_card, card) == updated_card

\* updated_card["dataset_query"]["native"]["query"] = card["dataset_query"]["native"]["query"]
copy_query(updated_card, card) ==
    With(updated_card, "dataset_query",
         With(updated_card["dataset_query"], "native", card["dataset_query"]["native"]))

\* Metabase.__merge_file once its GET has returned: the tree afterwards, the
\* file written, the exception raised
merge_file(tree, srv, filename) ==
    LET card == tree[filename]
        updated_card == srv[card["id"]]
        left(kind) == [tree |-> tree, written |-> {}, raised |-> kind]
    IN  IF "query_type" \notin DOMAIN card THEN left("KeyError")
        ELSE IF card["query_type"] = "native" /\ updated_card["query_type"] = "native"
        THEN IF "dataset_query" \notin DOMAIN card
                \/ "native" \notin DOMAIN card["dataset_query"]
             THEN left("KeyError")
             ELSE LET w == write_card(tree, copy_query(updated_card, card), TRUE, filename)
                  IN  [tree |-> w.tree, written |-> w.written, raised |-> "none"]
        ELSE left("none")

\* files a user keeps in the tree: a card of id 1 with an edited query
\* under a name of its own, and a file without id
EditedCard ==
    ("id" :> 1) @@ ("name" :> <<"A">>) @@ ("query_type" :> "native")
    @@ ("dataset_query" :> ("native" :> <<"select", "where", "#">>))
    @@ ("description" :> Null)

NoIdFile == ("description" :> Str(<<"#">>))

OwnName == <<"own", ".json">>

InitTrees == {<<>>} \cup {OwnName :> c : c \in {EditedCard, NoIdFile}}

SyncStores == {Store([u \in {ConfigUrl} |-> Saved("s1", "alice", "pw")])}

Last(op, card_id, overwrite, file, ok, again, written, local) ==
    [op |-> op, card_id |-> card_id, overwrite |-> overwrite, file |-> file, ok |-> ok,
     again |-> again, written |-> written, local |-> local]

NoCommand == Last("none", 0, FALSE, <<>>, TRUE, FALSE, {}, <<>>)

\* mbs pull [card_id] [-o]
Pull(card_id, overwrite) ==
    /\ sync.pc = "ready"
    /\ \E o \in get_card(remotes, sync.srv, card_id) :
        LET r == IF o.raised = "none" THEN pull(sync.tree, sync.srv, card_id, overwrite)
                 ELSE [tree |-> sync.tree, written |-> {}]
            again == /\ sync.last.op = "pull" /\ sync.last.ok
                     /\ sync.last.card_id = card_id /\ sync.last.overwrite = overwrite
        IN  /\ remotes' = o.remotes
            /\ sync' = [sync EXCEPT !.tree = r.tree,
                          !.last = Last("pull", card_id, overwrite, <<>>, o.raised = "none",
                                        again, r.written, <<>>)]
    /\ UNCHANGED <<rq, push, repo, cli>>

\* mbs merge <filename>
Merge(filename) ==
    /\ sync.pc = "ready"
    /\ LET done(r, ok, local) ==
              sync' = [sync EXCEPT !.tree = r.tree,
                         !.last = Last("merge", 0, FALSE, filename, ok, FALSE,
                                       r.written, local)]
           same == [tree |-> sync.tree, written |-> {}]
       IN  IF filename \notin DOMAIN sync.tree \/ "id" \notin DOMAIN sync.tree[filename]
           THEN done(same, TRUE, <<>>) /\ UNCHANGED remotes
           ELSE \E o \in get_card(remotes, sync.srv, sync.tree[filename]["id"]) :
                   LET r == merge_file(sync.tree, sync.srv, filename)
                   IN  /\ remotes' = o.remotes
                       /\ IF o.raised # "none" THEN done(same, FALSE, <<>>)
                          ELSE done(r, r.raised = "none", sync.tree[filename])
    /\ UNCHANGED <<rq, push, repo, cli>>

\* someone renames a card on the server (card 1, in this model)
Rename(id, name) ==
    /\ sync.pc = "ready"
    /\ sync.srv[id]["name"] # name
    /\ sync' = [sync EXCEPT !.srv = With(@, id, With(@[id], "name", name)),
                  !.last = Last("rename", id, FALSE, <<>>, TRUE, FALSE, {}, <<>>)]
    /\ UNCHANGED <<remotes, rq, push, repo, cli>>

InitSync ==
    /\ remotes \in SyncStores
    /\ rq = Idle
    /\ \E kind \in Kinds, managed \in ManagedSamples, tree \in InitTrees :
          sync = [pc |-> "ready", tree |-> tree,
                  srv |-> [id \in Ids |-> RemoteCard(id, <<"A">>,
                              IF id = 1 THEN kind ELSE "native#", managed)],
                  last |-> NoCommand]
    /\ push = PushIdle /\ repo = RepoIdle /\ cli = CliIdle

\* the files a command may name: those of the tree and one that is not there
NamedFiles == DOMAIN sync.tree \cup {<<"none", ".json">>}

NextSync ==
    \/ \E card_id \in {0} \cup Ids, overwrite \in BOOLEAN : Pull(card_id, overwrite)
    \/ \E filename \in NamedFiles : Merge(filename)
    \/ \E name \in Names : Rename(1, name)

SpecSync == InitSync /\ [][NextSync]_vars

\* C4: a pull without overwrite that follows the same pull, completed,
\* with nothing in between, creates no file and changes no file.
C4_PullTwiceChangesNothing ==
    [][(sync'.last.op = "pull" /\ ~sync'.last.overwrite /\ sync'.last.again)
          => sync'.tree = sync.tree]_vars

\* the second of two full pulls has returned, and the tree holds the two
\* cards the first one wrote
C4_Witness ==
    /\ sync.last.op = "pull" /\ sync.last.card_id = 0 /\ ~sync.last.overwrite
    /\ sync.last.again /\ sync.last.ok
    /\ \A id \in Ids : FileName(id, <<"A">>) \in DOMAIN sync.tree

\* the card merge fetched for the file it wrote, with the local query in it
Merged ==
    With(sync.srv[sync.last.local["id"]], "dataset_query",
         "native" :> sync.last.local["dataset_query"]["native"])

MergeWrote == sync.last.op = "merge" /\ sync.last.written # {}

\* C5 as claimed: the file merge writes is the fetched card in every field,
\* but for the native query text, which is the local one.
C5_MergedIsRemoteInEveryField ==
    MergeWrote => sync.last.written = {sync.last.file}
                  /\ sync.tree[sync.last.file] = Merged

\* C5 as amended: the file merge writes is the fetched card in every field
\* that is not server-managed, but for the native query text, which is the
\* local one.
C5_MergedIsRemoteButManaged ==
    MergeWrote => /\ sync.last.written = {sync.last.file}
                  /\ Without(sync.tree[sync.last.file], ManagedSet)
                        = Without(Merged, ManagedSet)
                  /\ sync.tree[sync.last.file]["dataset_query"]["native"]
                        = sync.last.local["dataset_query"]["native"]

\* merge has written the user's own file: the edited query is kept, the
\* name is the one the card has on the server by now
C5_Witness ==
    /\ MergeWrote /\ sync.last.file = OwnName
    /\ sync.tree[OwnName]["dataset_query"]["native"] = <<"select", "where", "#">>
    /\ sync.tree[OwnName]["name"] = <<"B", "/">>

\* C6: no two files of the local tree carry the same id.
C6_IdsUnique ==
    \A f, g \in DOMAIN sync.tree :
        (f # g /\ "id" \in DOMAIN sync.tree[f] /\ "id" \in DOMAIN sync.tree[g])
            => sync.tree[f]["id"] # sync.tree[g]["id"]

\* C10: a file written by pull or merge carries no server-managed field.
C10_WrittenFilesStripped ==
    sync.last.op \in {"pull", "merge"} =>
        \A f \in sync.last.written : DOMAIN sync.tree[f] \cap ManagedSet = {}

\* C12: every file a pull creates or overwrites, with a card id or without,
\* holds a card that carries the ownership tag in its native query or in
\* its description.
C12_PullWritesTaggedOnly ==
    sync.last.op = "pull" => \A f \in sync.last.written : tagged(sync.tree[f])

-----------------------------------------------------------------------------
\* merge over the files of the tree

\* files found in a tree: the edited card of id 1, a file without id, card 2
\* of the graphical editor as a pull wrote it, and a card written by hand
\* with id, name and query but no query_type
GuiCard == delFrom(RemoteCard(2, <<"A">>, "gui#", ManagedSet), 1)

HandMade ==
    ("id" :> 2) @@ ("name" :> <<"B">>)
    @@ ("dataset_query" :> ("native" :> <<"select", "#">>))

LocalCards == {EditedCard, NoIdFile, GuiCard, HandMade}

LocalName(k) == <<"f", ToString(k), ".json">>

\* the file named on the command line may not exist
Missing == <<"none", ".json">>

\* the cards of the server: each a native query or one of the graphical editor
MergeServers ==
    {[id \in Ids |-> RemoteCard(id, <<"A">>, kinds[id], ManagedSet)] :
        kinds \in [Ids -> {"native#", "gui#"}]}

\* merge(filename): the files it goes through, in the order of rglob for
\* a batch, and the tree it started from
MergeStart(tree, srv, files, batch) ==
    [pc |-> "merge", tree |-> tree, before |-> tree, srv |-> srv, files |-> files,
     batch |-> batch, idx |-> 1, raised |-> "none", fetched |-> {}, written |-> {}]

\* One file of merge: __merge_file. A file that is not there or has no id
\* is logged and passed over; an exception of the GET or of __merge_file
\* ends the command, as nothing catches it.
MergeFile ==
    /\ sync.pc = "merge"
    /\ sync.idx <= Len(sync.files)
    /\ LET filename == sync.files[sync.idx]
           on == [sync EXCEPT !.idx = @ + 1]
       IN  IF filename \notin DOMAIN sync.tree \/ "id" \notin DOMAIN sync.tree[filename]
           THEN sync' = on /\ UNCHANGED remotes
           ELSE \E o \in get_card(remotes, sync.srv, sync.tree[filename]["id"]) :
                   LET r == merge_file(sync.tree, sync.srv, filename)
                       got == [sync EXCEPT !.fetched = @ \cup {sync.idx}]
                   IN  /\ remotes' = o.remotes
                       /\ sync' = IF o.raised # "none"
                                  THEN [sync EXCEPT !.pc = "raised", !.raised = o.raised]
                                  ELSE IF r.raised # "none"
                                  THEN [got EXCEPT !.pc = "raised", !.raised = r.raised]
                                  ELSE [got EXCEPT !.idx = @ + 1, !.tree = r.tree,
                                                   !.written = @ \cup r.written]
    /\ UNCHANGED <<rq, push, repo, cli>>

\* the loop is through: merge returns
MergeEnd ==
    /\ sync.pc = "merge"
    /\ sync.idx > Len(sync.files)
    /\ sync' = [sync EXCEPT !.pc = "done"]
    /\ UNCHANGED <<remotes, rq, push, repo, cli>>

InitMerge ==
    /\ remotes \in SyncStores
    /\ rq = Idle
    /\ \E n \in 0..NFiles : \E cards \in [1..n -> LocalCards], srv \in MergeServers :
          LET tree == [f \in {LocalName(k) : k \in 1..n} |->
                          cards[CHOOSE k \in 1..n : LocalName(k) = f]]
          IN  \/ sync = MergeStart(tree, srv, [k \in 1..n |-> LocalName(k)], TRUE)
              \/ \E filename \in DOMAIN tree \cup {Missing} :
                    sync = MergeStart(tree, srv, <<filename>>, FALSE)
    /\ push = PushIdle /\ repo = RepoIdle /\ cli = CliIdle

NextMerge == MergeFile \/ MergeEnd

SpecMerge == InitMerge /\ [][NextMerge]_vars

\* file k of the command, as it was before merge, and the card of the server
\* with its id
LocalBefore(k) == sync.before[sync.files[k]]
RemoteOf(k) == sync.srv[LocalBefore(k)["id"]]

\* merge has gone past file k, or has been ended by it
Reached(k) == sync.idx > k \/ (sync.idx = k /\ sync.pc = "raised")
EndedBy(k) == sync.idx = k /\ sync.pc = "raised"

LocalNative(k) ==
    "query_type" \in DOMAIN LocalBefore(k) /\ LocalBefore(k)["query_type"] = "native"

\* C13: a file without id, and a file whose card was fetched and is not a
\* native query on both sides, is left as it was and does not end merge,
\* which goes on with the files after it; merge writes a file only if it
\* has an id and both sides are native queries.
C13_MergeWritesOnlyNativePairs ==
    \A k \in 1..Len(sync.files) :
        LET f == sync.files[k] IN
        f \in DOMAIN sync.before =>
            /\ (Reached(k) /\ "id" \notin DOMAIN LocalBefore(k))
                  => sync.tree[f] = LocalBefore(k) /\ ~EndedBy(k)
            /\ (k \in sync.fetched /\ (~LocalNative(k) \/ RemoteOf(k)["query_type"] # "native"))
                  => sync.tree[f] = LocalBefore(k) /\ ~EndedBy(k)
            /\ f \in sync.written
                  => /\ "id" \in DOMAIN LocalBefore(k)
                     /\ LocalNative(k) /\ RemoteOf(k)["query_type"] = "native"

-----------------------------------------------------------------------------
\* The repository marker .mbs and init

\* a url, in characters: "/" and any other character
Urls == UNION {[1..k -> {"h", "/"}] : k \in 0..MaxUrlLen}

RECURSIVE rstripSlash(_)
rstripSlash(u) ==
    IF Len(u) > 0 /\ u[Len(u)] = "/" THEN rstripSlash(SubSeq(u, 1, Len(u) - 1)) ELSE u

RECURSIVE lstripSlash(_)
lstripSlash(u) == IF Len(u) > 0 /\ u[1] = "/" THEN lstripSlash(Tail(u)) ELSE u

\* init_url.strip("/")
strip(u) == lstripSlash(rstripSlash(u))

NoMarker == [exists |-> FALSE, url |-> <<>>]
Marker(u) == [exists |-> TRUE, url |-> u]

\* Metabase.__init__(init_url=url) on the marker file: the exception raised
\* with the class fatal, and the marker afterwards. An empty url is no
\* init_url: the marker is read, not written.
construct(marker, init_url, fatal) ==
    IF init_url # <<>>
    THEN IF ~marker.exists
         THEN [raised |-> "none", marker |-> Marker(strip(init_url))]
         ELSE [raised |-> fatal, marker |-> marker]
    ELSE IF marker.exists
         THEN [raised |-> "none", marker |-> marker]
         ELSE [raised |-> fatal, marker |-> marker]

\* init(url) of metabase.py
InitRepo(url) ==
    /\ repo.pc = "ready"
    /\ LET r == construct(repo.marker, url, "MbsFatalException")
       IN  repo' = [repo EXCEPT !.marker = r.marker,
                      !.call = [op |-> "init", url |-> url, raised |-> r.raised,
                                before |-> repo.marker]]
    /\ UNCHANGED <<remotes, rq, push, sync, cli>>

NoCall == [op |-> "none", url |-> <<>>, raised |-> "none", before |-> NoMarker]

InitInit ==
    /\ repo = [pc |-> "ready", marker |-> NoMarker, call |-> NoCall]
    /\ remotes = NoFile /\ rq = Idle
    /\ push = PushIdle /\ sync = SyncIdle /\ cli = CliIdle

NextInit == \E url \in Urls : InitRepo(url)

SpecInit == InitInit /\ [][NextInit]_vars

\* C7: init(url), for a url that is not empty, succeeds without a marker and
\* stores the url with its trailing slashes removed and nothing else changed;
\* with a marker it raises the fatal error and leaves the marker as it was.
C7_InitOnceStoresUrl ==
    (repo.call.op = "init" /\ repo.call.url # <<>>) =>
        IF ~repo.call.before.exists
        THEN repo.call.raised = "none" /\ repo.marker = Marker(rstripSlash(repo.call.url))
        ELSE repo.call.raised = "MbsFatalException" /\ repo.marker = repo.call.before

-----------------------------------------------------------------------------
\* The command line of __main__.py

\* the status of sys.exit() without an argument
ExitDefault == 0

\* MbsException of __main__.py: its constructor logs the message and calls
\* sys.exit(), so the process ends there
ExitCode(outcome) ==
    IF outcome = "completed" THEN ExitDefault
    ELSE IF outcome = "MbsException" THEN ExitDefault
    ELSE 1    \* an exception nothing catches ends Python with status 1

\* what pull, push and login can end with once the repository is loaded
Endings == {"completed", "MbsException", "KeyError"}

Exited(cmd, outcome) == [pc |-> "exited", cmd |-> cmd, outcome |-> outcome,
                         exit |-> ExitCode(outcome)]

Outcome(raised) == IF raised = "none" THEN "completed" ELSE raised

\* mbs init <url>
CliInit(url) ==
    /\ LET r == construct(repo.marker, url, "MbsException")
       IN  /\ repo' = [repo EXCEPT !.marker = r.marker]
           /\ cli' = Exited("init", Outcome(r.raised))
    /\ UNCHANGED <<remotes, rq, push, sync>>

\* mbs pull / push / login: Metabase() reads the marker, then the command runs
CliCommand(cmd) ==
    /\ LET r == construct(repo.marker, <<>>, "MbsException")
       IN  \E ending \in Endings :
              cli' = Exited(cmd, IF r.raised # "none" THEN r.raised ELSE ending)
    /\ UNCHANGED <<remotes, rq, push, sync, repo>>

InitCli ==
    /\ cli = [pc |-> "start", cmd |-> "none", outcome |-> "completed", exit |-> ExitDefault]
    /\ repo = [pc |-> "ready", marker |-> NoMarker, call |-> NoCall]
    /\ remotes = NoFile /\ rq = Idle
    /\ push = PushIdle /\ sync = SyncIdle

NextCli ==
    \/ \E url \in Urls : CliInit(url)
    \/ \E cmd \in {"pull", "push", "login"} : CliCommand(cmd)

SpecCli == InitCli /\ [][NextCli]_vars

\* C9: the exit code is 0 exactly when the command completes, and a command
\* ended by an error of the tool exits with a code that is not 0.
C9_ExitCodeTellsOutcome ==
    cli.pc = "exited" =>
        /\ cli.outcome = "completed" => cli.exit = 0
        /\ cli.outcome # "completed" => cli.exit # 0

====
